---- MODULE Spec2Model ----
(***************************************************************************)
(* Time Warp (timewarp.py): Time Machine reservoir sampler.                *)
(*                                                                         *)
(* Three specifications over one set of variables:                         *)
(*   Spec     the handler() control flow: validate_config, the dry-run     *)
(*            loop and the live loop, each round calling timewarp(),       *)
(*            which calls gen_wts() and aes();                             *)
(*   SpecAes  one call aes(strm, k), consumed one stream element per step; *)
(*   SpecWts  one call gen_wts(bups).                                      *)
(*                                                                         *)
(* Snapshot names are timestamps; they are modelled as numbers of half     *)
(* days, whose integer order is the order of int(bup.replace('-', '')),    *)
(* and timedelta.days is the floor of a difference divided by 2.           *)
(* random()**(1./wi) is a value of [0,1) for every wi > 0; a key is        *)
(* modelled by its rank in 0..MaxKey, drawn nondeterministically.          *)
(* Free space is counted in 1/Unit MB so that float(free)/len(bups) is     *)
(* exact.                                                                  *)
(***************************************************************************)
EXTENDS Integers, Sequences, FiniteSets, TLC

\* ---------------------------------------------------------------- bounds
MaxSnaps  == 3    \* snapshots on the volume at start
MaxKey    == 1    \* key ranks 0..MaxKey
MaxFree   == 1    \* df(volume) at start, in MB
MaxSize   == 1    \* MB freed by one successful tmutil delete
MaxRounds == 3    \* cap on live-loop iterations explored
MaxRuns   == 2    \* invocations of handler() explored
MaxStrm   == 3    \* stream length of a stand-alone aes call
MaxGrid   == 4    \* timestamps, 4 days apart, of a stand-alone gen_wts call

\* ------------------------------------------------------- generic helpers
RECURSIVE Fact(_)
Fact(n) == IF n <= 1 THEN 1 ELSE n * Fact(n - 1)

Unit == Fact(MaxSnaps)

Range(s) == {s[i] : i \in 1..Len(s)}

SetMax(S) == CHOOSE x \in S : \A y \in S : y <= x

SetMin(S) == CHOOSE x \in S : \A y \in S : x <= y

RECURSIVE SortedSeq(_)
SortedSeq(S) == IF S = {} THEN <<>>
                ELSE LET m == SetMin(S) IN <<m>> \o SortedSeq(S \ {m})

\* ------------------------------------------------------------ df, get_bups
\* df(path): free space of the volume in whole MB
df(dfree) == dfree

\* get_bups(tm_backup): the names listed on the volume (hidden entries,
\* Latest and inProgress entries are not part of the modelled disk)
get_bups(disk) == SortedSeq(disk)

\* os.path.join(base_path, name)
PathJoin(volume, name) == <<volume, name>>

\* ------------------------------------------------------------------ gen_wts
\* 1e2*1.618**(-dt), rounded down to a whole number
RECURSIVE Pow1618(_)
Pow1618(dt) == IF dt = 0 THEN 100
               ELSE IF dt > 0 THEN (Pow1618(dt - 1) * 1000) \div 1618
               ELSE (Pow1618(dt + 1) * 1618) \div 1000

\* sum of z^(2i+1)/(2i+1), z and the result in 1/10000
RECURSIVE AtanhSum(_, _, _)
AtanhSum(z, p, i) == IF i > 15 \/ p = 0 THEN 0
                     ELSE (p \div i) + AtanhSum(z, (((p * z) \div 10000) * z) \div 10000, i + 2)

\* 1e2*log(num/den) for num >= den > 0, rounded down to a whole number
Log100(num, den) == LET z == ((num - den) * 10000) \div (num + den)
                    IN  (2 * AtanhSum(z, z, 1)) \div 100

\* (today - ts).days: whole days, rounded down, between two timestamps
Days(today, ts) == (today - ts) \div 2

\* g_delta = float(t_delta - nt_delta_t) / 7, set to 1 when < 1; in sevenths
GDeltaM(t_delta, nt_delta_t) == t_delta - nt_delta_t

GDelta(t_delta, nt_delta_t) == IF t_delta - nt_delta_t < 7 THEN 7
                               ELSE t_delta - nt_delta_t

\* weight = lambda dt, dg: 1 + 1e2*1.618**(-dt) + 1e2*log(dg), in hundredths;
\* dg7 is dg in sevenths
weight(dt, dg7) == 100 + 100 * Pow1618(dt) + 100 * Log100(dg7, 7)

\* the weight given to the latest backup, 1e4, in hundredths
LatestWtM == 100 * 100

LatestWt == 1000000

gen_wts(bupsIn, today) ==
    LET sorted == SortedSeq(Range(bupsIn))
        n      == Len(sorted)
        data   == [i \in 1..(n - 1) |->
                     LET t_delta    == Days(today, sorted[i])
                         nt_delta_t == Days(today, sorted[i + 1])
                     IN  [file_name |-> sorted[i],
                          weight    |-> weight(t_delta, GDelta(t_delta, nt_delta_t))]]
    IN  data \o <<[file_name |-> sorted[n], weight |-> LatestWt]>>

\* the g_delta handed to weight() in each iteration of the loop of gen_wts
g_deltas(bupsIn, today) ==
    LET sorted == SortedSeq(Range(bupsIn))
    IN  [i \in 1..(Len(sorted) - 1) |->
           GDelta(Days(today, sorted[i]), Days(today, sorted[i + 1]))]

\* ---------------------------------------------------------------------- aes
\* tuple order of the heap entries (ki, el)
EntryLess(a, b) == a[1] < b[1] \/ (a[1] = b[1] /\ a[2] < b[2])

HeapMin(h) == CHOOSE m \in h : \A e \in h : e = m \/ EntryLess(m, e)

HeapMax(h) == CHOOSE m \in h : \A e \in h : e = m \/ EntryLess(e, m)

\* the ranks random()**(1./wi) can take, wi > 0
KeysOf(wi) == IF wi > 0 THEN 0..MaxKey ELSE {}

\* if n < k
FillM(n, k) == n + 1 < k

FillLeM(n, k) == n <= k

Fill(n, k) == n < k

\* if len(rsv) > 1
CanReplace(h) == Cardinality(h) > 1

\* heapq.heappush(rsv, (ki, el))
heappush(h, e) == h \cup {e}

\* heapq.heapreplace(rsv, (ki, el)): pop the smallest entry, push the new one
heapreplaceM(h, e) == h \ {HeapMin(h)}

heapreplace(h, e) == (h \ {HeapMin(h)}) \cup {e}

\* does the element take the heapreplace path
Replaces(h, n, ki, k) == /\ ~Fill(n, k)
                         /\ CanReplace(h)
                         /\ ki > HeapMin(h)[1]

\* one iteration of the for loop: n is enumerate's 0-based index
AesStep(h, n, el, ki, k) ==
    IF Fill(n, k) THEN heappush(h, <<ki, el>>)
    ELSE IF CanReplace(h)
         THEN IF ki > HeapMin(h)[1] THEN heapreplace(h, <<ki, el>>) ELSE h
         ELSE h

\* heapq.nlargest(k, rsv), projected on the element
RECURSIVE nlargest(_, _)
nlargest(k, h) == IF k <= 0 \/ h = {} THEN <<>>
                  ELSE LET m == HeapMax(h)
                       IN  <<m[2]>> \o nlargest(k - 1, h \ {m})

\* the reservoir after the first i elements of the stream, keys[j] being the
\* key drawn for the j-th element
RECURSIVE AesFold(_, _, _, _)
AesFold(s, keys, k, i) ==
    IF i = 0 THEN {}
    ELSE AesStep(AesFold(s, keys, k, i - 1), i - 1, s[i].file_name, keys[i], k)

\* list(aes(strm, k)) for the drawn keys
aes(s, keys, k) == nlargest(k, AesFold(s, keys, k, Len(s)))

\* the key sequences random() can produce for a stream
KeyDraws(s) == {ks \in [1..Len(s) -> 0..MaxKey] : \A i \in 1..Len(s) : ks[i] \in KeysOf(s[i].weight)}

\* ----------------------------------------------------------------- timewarp
\* res_size = len(bups) - 1
res_sizeM(bupsIn) == Len(bupsIn) - 2

res_size(bupsIn) == Len(bupsIn) - 1

\* mode == 'live' in timewarp
TwLiveM(mode) == mode \in {"live", "Live"}

TwLive(mode) == mode = "live"

\* del_bups(del_bups, base_path): the files handed to tmutil delete, one
\* wrapper call per file
del_bups(todel, base_path) == [i \in 1..Len(todel) |-> PathJoin(base_path, todel[i])]

\* lines 145-150: the reservoir and the backups to delete
timewarp(bupsIn, keys, today) ==
    LET res_data   == gen_wts(bupsIn, today)
        res_bups   == Range(aes(res_data, keys, res_size(bupsIn)))
        todel_bups == SelectSeq(bupsIn, LAMBDA b : b \notin res_bups)
    IN  [called |-> TRUE, bups |-> bupsIn, res_bups |-> res_bups,
         todel_bups |-> todel_bups]

NoCall == [called |-> FALSE, bups |-> <<>>, res_bups |-> {}, todel_bups |-> <<>>]

\* datetime.datetime.today(), as a day number, read by every gen_wts call:
\* the day after the newest snapshot name
Todays == {5 * MaxSnaps + 1}

\* list.remove(x): drop the first occurrence
RemoveM(s, x) == Tail(s)

RECURSIVE Remove(_, _)
Remove(s, x) == IF s = <<>> THEN <<>>
                ELSE IF Head(s) = x THEN Tail(s)
                ELSE <<Head(s)>> \o Remove(Tail(s), x)

\* ------------------------------------------------------------------ handler
VARIABLES cfg,        \* the configuration record (kwargs)
          disk,       \* the snapshots on the volume
          dfree,      \* the volume's free space, MB
          pc,         \* position in handler()
          l,          \* the logger, FALSE when no log is configured
          n_bups,     \* n_bups
          bups,       \* bups
          free,       \* free, in 1/Unit MB
          ave_size,   \* ave_size, in 1/Unit MB
          rounds,     \* iterations of the while loop in this run
          deleted,    \* paths handed to tmutil delete in this run
          audit,      \* lines of the log file
          auditBase,  \* length of the log file when this run started
          printed,    \* backup names printed in this run
          tw,         \* the last timewarp() call of this run
          free0,      \* free when the loop was first evaluated
          disk0,      \* the snapshots listed when this run started
          df_calls,   \* calls of df(volume) in this run
          run         \* number of the handler() invocation

VARIABLES strm,       \* aes: the stream, a sequence of (el, wi)
          k,          \* aes: the reservoir size
          idx,        \* aes: elements consumed so far
          rsv,        \* aes: the heap
          drawn,      \* aes: the keys drawn, by position
          replaced,   \* aes: number of heapreplace calls
          out,        \* aes: the yielded elements
          apc         \* aes: position, "idle" | "loop" | "done"

hvars == <<cfg, disk, dfree, pc, l, n_bups, bups, free, ave_size, rounds,
           deleted, audit, auditBase, printed, tw, free0, disk0, df_calls, run>>

VARIABLES wbups,      \* gen_wts: bups
          wtoday,     \* gen_wts: today
          wdata,      \* gen_wts: the returned list
          wgaps,      \* gen_wts: the g_delta of each loop iteration
          wpc         \* gen_wts: position, "idle" | "call" | "done"

avars == <<strm, k, idx, rsv, drawn, replaced, out, apc>>

wvars == <<wbups, wtoday, wdata, wgaps, wpc>>

vars == <<hvars, avars, wvars>>

Volumes == {"ok", "nopath", "absent"}

Modes == {"live", "Live", "dry", "absent"}

Thresholds == {[kind |-> "absent", val |-> 0], [kind |-> "str", val |-> 0]}
              \cup {[kind |-> "int", val |-> v] : v \in 0..(MaxFree + 1)}

Configs == [volume : Volumes, mode : Modes, threshold : Thresholds,
            log : BOOLEAN]

\* the snapshot names: one every 5 half days
SnapDays(n) == {5 * i : i \in 1..n}

\* free < threshold (Python 2 orders every number below every string)
Below(f, threshold) == IF threshold.kind = "int" THEN f < threshold.val * Unit
                       ELSE TRUE

\* while free < threshold and len(bups) > 0
LoopCondM(f, threshold, n) == (f <= threshold.val * Unit \/ threshold.kind # "int") /\ n > 0

LoopCond(f, threshold, n) == Below(f, threshold) /\ n > 0

\* free += ave_size
NextFreeM(f, a) == f + a + a

NextFree(f, a) == f + a

\* validate_config returns normally
ConfigOK(c) == /\ c.volume = "ok"
               /\ c.mode # "absent"
               /\ c.threshold.kind # "absent"

AesIdle == /\ strm = <<>> /\ k = 0 /\ idx = 0 /\ rsv = {} /\ drawn = <<>>
           /\ replaced = 0 /\ out = <<>> /\ apc = "idle"

WtsIdle == /\ wbups = <<>> /\ wtoday = 0 /\ wdata = <<>> /\ wgaps = <<>>
           /\ wpc = "idle"

Init == /\ cfg \in Configs
        /\ \E n \in 0..MaxSnaps : disk = SnapDays(n)
        /\ dfree \in 0..MaxFree
        /\ pc = "validate"
        /\ l = FALSE
        /\ n_bups = 0
        /\ bups = <<>>
        /\ free = 0
        /\ ave_size = 0
        /\ rounds = 0
        /\ deleted = <<>>
        /\ audit = <<>>
        /\ auditBase = 0
        /\ printed = <<>>
        /\ tw = NoCall
        /\ free0 = 0
        /\ disk0 = {}
        /\ df_calls = 0
        /\ run = 1
        /\ AesIdle
        /\ WtsIdle

\* validate_config, lines 179-194
validate_config ==
    /\ pc = "validate"
    /\ IF ConfigOK(cfg)
       THEN /\ pc' = "measure"
            /\ l' = cfg.log
       ELSE /\ pc' = "exit0"
            /\ l' = l
    /\ UNCHANGED <<cfg, disk, dfree, n_bups, bups, free, ave_size, rounds,
                   deleted, audit, auditBase, printed, tw, free0, disk0, run>>
    /\ UNCHANGED df_calls
    /\ UNCHANGED avars
    /\ UNCHANGED wvars

\* lines 201-209: n_bups, free, and in dry-run mode bups and ave_size
Measure ==
    /\ pc = "measure"
    /\ n_bups' = Len(get_bups(disk))
    /\ free' = df(dfree) * Unit
    /\ free0' = df(dfree) * Unit
    /\ disk0' = disk
    /\ IF cfg.mode # "live"
       THEN /\ bups' = get_bups(disk)
            /\ IF Len(get_bups(disk)) = 0
               THEN /\ pc' = "crash"        \* ZeroDivisionError
                    /\ ave_size' = ave_size
               ELSE /\ pc' = "dry_loop"
                    /\ ave_size' = (df(dfree) * Unit) \div Len(get_bups(disk))
       ELSE /\ pc' = "live_loop"
            /\ UNCHANGED <<bups, ave_size>>
    /\ UNCHANGED <<cfg, disk, dfree, l, rounds, deleted, audit, auditBase,
                   printed, tw, run>>
    /\ df_calls' = 1
    /\ UNCHANGED avars
    /\ UNCHANGED wvars

\* one iteration of the dry-run loop, lines 210-217
DryRound ==
    /\ pc = "dry_loop"
    /\ LoopCond(free, cfg.threshold, Len(bups))
    /\ \E today \in Todays : \E keys \in KeyDraws(gen_wts(bups, today)) :
         LET c == timewarp(bups, keys, today)
         IN  /\ tw' = c
             /\ IF TwLive(cfg.mode)
                THEN \* timewarp returns None: bups.remove(None) raises
                     /\ deleted' = deleted \o del_bups(c.todel_bups, cfg.volume)
                     /\ pc' = "crash"
                     /\ UNCHANGED <<bups, free, printed, audit, rounds>>
                ELSE IF c.todel_bups = <<>>
                THEN \* todel_bups[0] raises IndexError
                     /\ pc' = "crash"
                     /\ UNCHANGED <<bups, free, printed, audit, rounds, deleted>>
                ELSE LET bup_name == c.todel_bups[1]
                     IN  /\ bups' = Remove(bups, bup_name)
                         /\ free' = NextFree(free, ave_size)
                         /\ printed' = Append(printed, bup_name)
                         /\ audit' = IF l # FALSE
                                     THEN Append(audit, PathJoin(cfg.volume, bup_name))
                                     ELSE audit
                         /\ rounds' = rounds + 1
                         /\ pc' = pc
                         /\ deleted' = deleted
    /\ UNCHANGED <<cfg, disk, dfree, l, n_bups, ave_size, auditBase, free0, disk0, run>>
    /\ UNCHANGED df_calls
    /\ UNCHANGED avars
    /\ UNCHANGED wvars

\* the dry-run loop condition is false: handler returns
DryExit ==
    /\ pc = "dry_loop"
    /\ ~LoopCond(free, cfg.threshold, Len(bups))
    /\ pc' = "done"
    /\ UNCHANGED <<cfg, disk, dfree, l, n_bups, bups, free, ave_size, rounds,
                   deleted, audit, auditBase, printed, tw, free0, disk0, run>>
    /\ UNCHANGED df_calls
    /\ UNCHANGED avars
    /\ UNCHANGED wvars

\* one iteration of the live loop, lines 219-222; each tmutil delete either
\* removes its snapshot or fails, and df is read again afterwards
LiveRound ==
    /\ pc = "live_loop"
    /\ LoopCond(free, cfg.threshold, Len(get_bups(disk)))
    /\ rounds < MaxRounds
    /\ bups' = get_bups(disk)
    /\ \E today \in Todays : \E keys \in KeyDraws(gen_wts(get_bups(disk), today)) :
         LET c == timewarp(get_bups(disk), keys, today)
         IN  /\ tw' = c
             /\ IF TwLive(cfg.mode)
                THEN /\ deleted' = deleted \o del_bups(c.todel_bups, cfg.volume)
                     /\ \E gone \in SUBSET Range(c.todel_bups) :
                        \E freed \in 0..(MaxSize * Cardinality(gone)) :
                          /\ disk' = disk \ gone
                          /\ dfree' = dfree + freed
                          /\ free' = df(dfree + freed) * Unit
                     /\ pc' = pc
                ELSE IF c.todel_bups = <<>>
                THEN /\ pc' = "crash"
                     /\ UNCHANGED <<deleted, disk, dfree, free>>
                ELSE /\ pc' = pc
                     /\ free' = df(dfree) * Unit
                     /\ UNCHANGED <<deleted, disk, dfree>>
    /\ rounds' = rounds + 1
    /\ UNCHANGED <<cfg, l, n_bups, ave_size, audit, auditBase, printed, free0, disk0, run>>
    /\ df_calls' = IF pc' = "crash" THEN df_calls ELSE df_calls + 1
    /\ UNCHANGED avars
    /\ UNCHANGED wvars

\* the live loop condition is false: handler returns
LiveExit ==
    /\ pc = "live_loop"
    /\ ~LoopCond(free, cfg.threshold, Len(get_bups(disk)))
    /\ pc' = "done"
    /\ UNCHANGED <<cfg, disk, dfree, l, n_bups, bups, free, ave_size, rounds,
                   deleted, audit, auditBase, printed, tw, free0, disk0, run>>
    /\ UNCHANGED df_calls
    /\ UNCHANGED avars
    /\ UNCHANGED wvars

\* main() is run again, on the same volume with the same configuration,
\* right after a run that returned with free >= threshold
Rerun ==
    /\ pc = "done"
    /\ ~Below(free, cfg.threshold)
    /\ run < MaxRuns
    /\ run' = run + 1
    /\ pc' = "validate"
    /\ l' = FALSE
    /\ n_bups' = 0
    /\ bups' = <<>>
    /\ free' = 0
    /\ ave_size' = 0
    /\ rounds' = 0
    /\ deleted' = <<>>
    /\ printed' = <<>>
    /\ tw' = NoCall
    /\ free0' = 0
    /\ disk0' = {}
    /\ auditBase' = Len(audit)
    /\ UNCHANGED <<cfg, disk, dfree, audit>>
    /\ df_calls' = 0
    /\ UNCHANGED avars
    /\ UNCHANGED wvars

Next == \/ validate_config
        \/ Measure
        \/ DryRound
        \/ DryExit
        \/ LiveRound
        \/ LiveExit
        \/ Rerun

Spec == Init /\ [][Next]_vars

\* ------------------------------------------------- a stand-alone aes call
\* weights handed to aes, in hundredths: 1 and the latest backup's 1e4
Weights == {100, LatestWt}

\* streams of distinct elements 1..n in every arrival order
Streams == UNION {{[i \in 1..n |-> [file_name |-> els[i], weight |-> ws[i]]] :
                      els \in {f \in [1..n -> 1..n] : \A i, j \in 1..n : f[i] = f[j] => i = j},
                      ws \in [1..n -> Weights]} : n \in 0..MaxStrm}

HandlerIdle == /\ cfg = [volume |-> "absent", mode |-> "absent",
                         threshold |-> [kind |-> "absent", val |-> 0], log |-> FALSE]
               /\ disk = {} /\ dfree = 0 /\ pc = "idle" /\ l = FALSE
               /\ n_bups = 0 /\ bups = <<>> /\ free = 0 /\ ave_size = 0
               /\ rounds = 0 /\ deleted = <<>> /\ audit = <<>> /\ auditBase = 0
               /\ printed = <<>> /\ tw = NoCall /\ free0 = 0 /\ disk0 = {}
               /\ df_calls = 0 /\ run = 1

InitAes == /\ HandlerIdle
           /\ WtsIdle
           /\ strm \in Streams
           /\ k \in 0..(MaxStrm + 1)
           /\ idx = 0
           /\ rsv = {}
           /\ drawn = <<>>
           /\ replaced = 0
           /\ out = <<>>
           /\ apc = "loop"

\* one iteration of the for loop of aes, lines 87-98
AesConsume ==
    /\ apc = "loop"
    /\ idx < Len(strm)
    /\ \E ki \in KeysOf(strm[idx + 1].weight) :
         /\ rsv' = AesStep(rsv, idx, strm[idx + 1].file_name, ki, k)
         /\ replaced' = IF Replaces(rsv, idx, ki, k) THEN replaced + 1 ELSE replaced
         /\ drawn' = Append(drawn, ki)
    /\ idx' = idx + 1
    /\ UNCHANGED <<strm, k, out, apc>>
    /\ UNCHANGED hvars
    /\ UNCHANGED wvars

\* the stream is exhausted: lines 101-103 yield the reservoir
AesYield ==
    /\ apc = "loop"
    /\ idx = Len(strm)
    /\ out' = nlargest(k, rsv)
    /\ apc' = "done"
    /\ UNCHANGED <<strm, k, idx, rsv, drawn, replaced>>
    /\ UNCHANGED hvars
    /\ UNCHANGED wvars

NextAes == \/ AesConsume
           \/ AesYield

SpecAes == InitAes /\ [][NextAes]_vars

\* --------------------------------------------- a stand-alone gen_wts call
\* timestamps of the backups, in half days: two on the same day, the others
\* 4 days apart
WStamps == {0, 1} \cup {8 * i : i \in 1..MaxGrid}

\* today: before most of the backups, and after all of them
WTodays == {1, 8 * MaxGrid + 2}

InitWts == /\ HandlerIdle
           /\ AesIdle
           /\ \E S \in SUBSET WStamps : S # {} /\ wbups = SortedSeq(S)
           /\ wtoday \in WTodays
           /\ wdata = <<>>
           /\ wgaps = <<>>
           /\ wpc = "call"

\* gen_wts(bups), lines 43-69
GenWts ==
    /\ wpc = "call"
    /\ wdata' = gen_wts(wbups, wtoday)
    /\ wgaps' = g_deltas(wbups, wtoday)
    /\ wpc' = "done"
    /\ UNCHANGED <<wbups, wtoday>>
    /\ UNCHANGED hvars
    /\ UNCHANGED avars

NextWts == GenWts

SpecWts == InitWts /\ [][NextWts]_vars

\* ================================================================== claims
InLoop == pc \in {"dry_loop", "live_loop", "done", "crash"}

\* the chronologically latest snapshot of a planner input
Latest(b) == SetMax(Range(b))

\* C1: whenever the planner has been called on n >= 2 snapshots, the snapshot
\* it chose for eviction is not the chronologically latest one of its input.
C1_LatestNeverEvicted ==
    (tw.called /\ Len(tw.bups) >= 2) => Latest(tw.bups) \notin Range(tw.todel_bups)

\* C2: a run that started with n0 >= 1 snapshots performs at most n0 - 1
\* eviction rounds, in dry-run and in live mode.
C2_AtMostN0Minus1Rounds ==
    (InLoop /\ n_bups >= 1) => rounds <= n_bups - 1

\* C3: the planner is never called on fewer than 2 snapshots, and a run that
\* found exactly 1 snapshot evicts nothing.
C3_NeverPlansBelowTwo ==
    /\ tw.called => Len(tw.bups) >= 2
    /\ (InLoop /\ n_bups = 1) => (rounds = 0 /\ printed = <<>> /\ deleted = <<>>)

\* the key drawn for the element el of the stream
KeyOfEl(el) == drawn[CHOOSE i \in 1..Len(strm) : strm[i].file_name = el]

Elems == {strm[i].file_name : i \in 1..Len(strm)}

DistinctKeys == \A i, j \in 1..Len(drawn) : drawn[i] = drawn[j] => i = j

\* the kk elements with the largest keys
TopK(kk) == {el \in Elems : Cardinality({o \in Elems : KeyOfEl(o) > KeyOfEl(el)}) < kk}

\* C4: when the keys are pairwise distinct and 0 <= k <= n, aes yields exactly
\* the k elements with the largest keys, whatever the arrival order.
C4_YieldsTopK ==
    (apc = "done" /\ k <= Len(strm) /\ DistinctKeys) => Range(out) = TopK(k)

\* C5: a run whose mode is not "live" never calls the deletion command; a
\* run whose mode is "live" has made exactly one deletion call per round,
\* the last one for the single snapshot the planner chose.
C5_DeletionCallsPerMode ==
    IF cfg.mode = "live"
    THEN /\ Len(deleted) = rounds
         /\ rounds > 0 => /\ Len(tw.todel_bups) = 1
                          /\ deleted[Len(deleted)] = PathJoin(cfg.volume, tw.todel_bups[1])
    ELSE deleted = <<>>

C5_Witness ==
    /\ cfg.mode = "live" /\ pc = "done" /\ rounds >= 2 /\ Len(deleted) = rounds
    /\ Cardinality(disk) < Cardinality(disk0)

\* C6: every planner call on n >= 2 snapshots leaves exactly one snapshot out
\* of the retained set, and the retained set has n - 1 members.
C6_OneCandidatePerCall ==
    (tw.called /\ Len(tw.bups) >= 2) =>
        /\ Len(tw.todel_bups) = 1
        /\ Cardinality(tw.res_bups) = Len(tw.bups) - 1
        /\ tw.res_bups \subseteq Range(tw.bups)

C6_Witness ==
    /\ tw.called /\ Len(tw.bups) >= 3 /\ Len(tw.todel_bups) = 1
    /\ tw.todel_bups[1] # Latest(tw.bups)

\* C7: for k <= n, aes yields exactly k elements, all from the stream, none
\* twice.
C7_YieldsKDistinct ==
    (apc = "done" /\ k <= Len(strm)) =>
        /\ Len(out) = k
        /\ Range(out) \subseteq Elems
        /\ \A i, j \in 1..Len(out) : out[i] = out[j] => i = j

C7_Witness ==
    apc = "done" /\ Len(strm) = 3 /\ k = 2 /\ replaced >= 1 /\ Len(out) = 2

\* C8: when k >= n the heapreplace path is never taken and aes yields all n
\* elements of the stream.
C8_NoReplaceWhenKCoversN ==
    (k >= Len(strm)) =>
        /\ replaced = 0
        /\ apc = "done" => (Len(out) = Len(strm) /\ Range(out) = Elems)

C8_Witness ==
    /\ apc = "done" /\ Len(strm) >= 2 /\ k > Len(strm) /\ Range(out) = Elems
    /\ \E i \in 1..Len(drawn) : drawn[i] > drawn[1]

\* C9: a run that finds free >= threshold when its loop starts performs no
\* round: no planner call, no deletion call, nothing printed or logged, and
\* the snapshot set stays as it was listed.
C9_SatisfiedAtStartDoesNothing ==
    (InLoop /\ ~Below(free0, cfg.threshold)) =>
        /\ rounds = 0
        /\ ~tw.called
        /\ deleted = <<>>
        /\ printed = <<>>
        /\ Len(audit) = auditBase
        /\ disk = disk0
        /\ cfg.mode # "live" => bups = get_bups(disk0)

C9_Witness ==
    /\ run = 2 /\ pc = "done" /\ ~Below(free0, cfg.threshold)
    /\ cfg.mode = "live" /\ disk # {} /\ dfree > MaxFree /\ rounds = 0

\* C10: with a log configured, the run has appended exactly one log line per
\* round, in live mode as in dry-run mode.
C10_OneAuditRecordPerRound ==
    (InLoop /\ l # FALSE) => Len(audit) - auditBase = rounds

\* a configuration with a required field missing or invalid, or whose volume
\* path does not exist
Erroneous(c) == \/ c.volume # "ok"
                \/ c.mode = "absent"
                \/ c.threshold.kind # "int"

\* C11: a run whose configuration is erroneous (a required field missing, a
\* non-integer threshold, or a volume path that does not exist) never leaves
\* validate_config except by exiting: no round and no deletion call.
C11_ErroneousConfigDoesNothing ==
    Erroneous(cfg) => /\ pc \in {"validate", "exit0"}
                      /\ rounds = 0
                      /\ deleted = <<>>
                      /\ ~tw.called

\* C12: a run that finds no snapshot on the volume never raises an error.
C12_EmptyCatalogNoError ==
    (disk = {}) => pc # "crash"

\* the tmutil delete of the last live round left its snapshot on the volume
LastDeletionFailed == /\ cfg.mode = "live"
                      /\ rounds > 0
                      /\ Range(tw.todel_bups) \cap disk # {}

\* C13: in live mode, once a deletion has failed the loop starts no further
\* round.
C13_NoRoundAfterFailedDeletion ==
    [][(pc = "live_loop" /\ LastDeletionFailed) => rounds' = rounds]_vars

\* C14 as stated: for n >= 2 backups, whatever their timestamps, gen_wts
\* gives the latest one the weight 10000 and every other one a smaller weight.
C14_LatestWeightIsMaximal ==
    (wpc = "done" /\ Len(wbups) >= 2) =>
        /\ wdata[Len(wdata)].file_name = Latest(wbups)
        /\ wdata[Len(wdata)].weight = 100 * 10000
        /\ \A i \in 1..(Len(wdata) - 1) : wdata[i].weight < 100 * 10000

NoneInFuture == \A i \in 1..Len(wbups) : Days(wtoday, wbups[i]) >= 0

\* C14 amended: the same, for backups none of which is dated after today.
C14_LatestWeightIsMaximalPast ==
    (wpc = "done" /\ Len(wbups) >= 2 /\ NoneInFuture) =>
        /\ wdata[Len(wdata)].file_name = Latest(wbups)
        /\ wdata[Len(wdata)].weight = 100 * 10000
        /\ \A i \in 1..(Len(wdata) - 1) : wdata[i].weight < 100 * 10000

C14_Witness ==
    /\ wpc = "done" /\ Len(wbups) >= 3 /\ NoneInFuture
    /\ \E i \in 1..(Len(wdata) - 1) : wdata[i].weight > 100
    /\ \E i \in 1..Len(wgaps) : wgaps[i] > 7

\* days between the i-th backup and the next one, as gen_wts counts them
RawGap(i) == Days(wtoday, wbups[i]) - Days(wtoday, wbups[i + 1])

\* C18: every gap handed to the logarithm is at least 1 week (7 sevenths), a
\* gap under one week, a zero-day gap included, being replaced by exactly 1;
\* the logarithmic term is never negative and every weight is positive.
C18_GapAtLeastOneWeek ==
    (wpc = "done") =>
        /\ Len(wgaps) = Len(wbups) - 1
        /\ \A i \in 1..Len(wgaps) :
             /\ wgaps[i] >= 7
             /\ RawGap(i) < 7 => wgaps[i] = 7
             /\ Log100(wgaps[i], 7) >= 0
        /\ \A i \in 1..Len(wdata) : wdata[i].weight > 0

C18_Witness ==
    /\ wpc = "done"
    /\ \E i \in 1..Len(wgaps) : RawGap(i) = 0 /\ wgaps[i] = 7
    /\ \E i \in 1..Len(wgaps) : wgaps[i] > 7

\* C16: in dry-run mode ave_size is free0 / n0, fixed for the whole loop;
\* after r rounds free is free0 + r * ave_size; each round was started with
\* free below the threshold; df is called once, before the loop.
C16_DryRunEstimate ==
    (cfg.mode # "live" /\ pc \in {"dry_loop", "done"}) =>
        /\ ave_size * n_bups = free0
        /\ free0 = df(dfree) * Unit
        /\ free = free0 + rounds * ave_size
        /\ rounds > 0 => Below(free - ave_size, cfg.threshold)
        /\ df_calls = 1

C16_Witness ==
    /\ cfg.mode # "live" /\ pc = "done" /\ rounds >= 2 /\ ave_size > 0
    /\ ~Below(free, cfg.threshold) /\ Below(df(dfree) * Unit, cfg.threshold)

\* C17: in every step of an aes call the heap ends with at most k entries; it
\* grows only when fewer than k elements had been consumed, and a heapreplace
\* leaves its size unchanged.
C17_ReservoirBounded ==
    [][/\ Cardinality(rsv') <= k
       /\ Cardinality(rsv') > Cardinality(rsv) => idx < k
       /\ replaced' > replaced => Cardinality(rsv') = Cardinality(rsv)]_vars

C17_Witness ==
    /\ apc = "loop" /\ idx = Len(strm) /\ idx > k /\ k >= 2
    /\ replaced >= 1 /\ Cardinality(rsv) = k

\* C19: in dry-run mode the names printed so far are pairwise distinct
\* members of the listed set, one per round, and the in-memory list is the
\* listed set without them.
C19_DryRunRemovesEmitted ==
    (cfg.mode # "live" /\ pc \in {"dry_loop", "done"}) =>
        /\ Len(printed) = rounds
        /\ \A i, j \in 1..Len(printed) : printed[i] = printed[j] => i = j
        /\ Range(printed) \subseteq disk0
        /\ Range(bups) = disk0 \ Range(printed)
        /\ Len(bups) = Cardinality(disk0) - rounds
        /\ rounds > 0 => (tw.todel_bups = <<printed[Len(printed)]>>
                          /\ Range(tw.bups) = Range(bups) \cup {printed[Len(printed)]})

C19_Witness ==
    /\ cfg.mode # "live" /\ pc = "dry_loop" /\ rounds = 2 /\ bups # <<>>
    /\ printed[1] > printed[2]

====
